---- MODULE Spec2Model ----
(***************************************************************************)
(* FreightCompare (src/src/app/page.tsx): the quote estimators, the quote  *)
(* generator, the filter-and-sort pipeline and the form's state machine.   *)
(*                                                                         *)
(* Numbers.  A JavaScript number is modelled as a reduced fraction         *)
(* <<numerator, denominator>> with denominator > 0, so that + - * / max    *)
(* round and ceil are exact.  The one irrational operation, Math.log, is   *)
(* computed to eight decimals (Ln8) and the product with it is kept to     *)
(* four decimals (TimesLogOver5).  Values that the code obtains from       *)
(* parseInt, String.length or charCodeAt are plain integers.               *)
(* Strings are sequences of UTF-16 code units.                             *)
(***************************************************************************)
EXTENDS Integers, Sequences, FiniteSets, TLC

VARIABLES
    origin, destination, mode, service,     \* useState, lines 92-95
    weight, length, width, height,          \* useState, lines 96-99
    sortBy, maxPrice, onlyGreen,            \* useState, lines 100-102
    submitted, loading,                     \* useState, lines 103-104
    timers,                                 \* pending setTimeout callbacks, line 239
    volumeM3, distanceKm,                   \* useMemo values, lines 108-109
    quotes, filteredSorted, bestPrice,      \* useMemo values, lines 112-139
    call                                    \* last direct call of a helper function

formVars == <<origin, destination, mode, service, weight, length, width, height>>
rankVars == <<sortBy, maxPrice, onlyGreen>>
searchVars == <<submitted, loading, timers>>
memoVars == <<volumeM3, distanceKm, quotes, filteredSorted, bestPrice>>
appVars == <<formVars, rankVars, searchVars, memoVars>>
vars == <<appVars, call>>

---------------------------------------------------------------------------
(* Number arithmetic                                                       *)

Abs(x) == IF x < 0 THEN -x ELSE x

RECURSIVE GCD(_, _)
GCD(a, b) == IF b = 0 THEN a ELSE GCD(b, a % b)

\* the reduced fraction n/d (d # 0)
Frac(n, d) ==
    LET s == IF d < 0 THEN -1 ELSE 1
        g == GCD(Abs(n), Abs(d))
    IN  <<(s * n) \div g, (s * d) \div g>>

Number(n) == <<n, 1>>

IsInteger(x) == x[2] = 1

FMul(x, y) ==
    LET g1 == GCD(Abs(x[1]), y[2])
        g2 == GCD(Abs(y[1]), x[2])
        h1 == IF g1 = 0 THEN 1 ELSE g1
        h2 == IF g2 = 0 THEN 1 ELSE g2
    IN  Frac((x[1] \div h1) * (y[1] \div h2), (x[2] \div h2) * (y[2] \div h1))

FAdd(x, y) ==
    LET g == GCD(x[2], y[2])
    IN  Frac(x[1] * (y[2] \div g) + y[1] * (x[2] \div g), x[2] * (y[2] \div g))

FSub(x, y) == FAdd(x, <<-y[1], y[2]>>)

\* x / y for y # 0
FDiv(x, y) == FMul(x, Frac(y[2], y[1]))

FLeq(x, y) == x[1] * y[2] <= y[1] * x[2]

FLess(x, y) == x[1] * y[2] < y[1] * x[2]

MathMax(x, y) == IF FLeq(x, y) THEN y ELSE x

MathAbs(n) == Abs(n)

\* Math.round: the nearest integer, halves towards +Infinity
MathRound(x) == Number((2 * x[1] + x[2]) \div (2 * x[2]))

\* Math.ceil
MathCeil(x) == Number(-((-x[1]) \div x[2]))

\* <<q, r>> with a * b = q * c + r and 0 <= r < c, for b >= 0 and
\* 0 < c < 2^31 / 7, digit by digit in base 4, so that no intermediate
\* value leaves the 32-bit range
RECURSIVE MulDiv(_, _, _)
MulDiv(a, b, c) ==
    IF b = 0 THEN <<0, 0>>
    ELSE LET h == MulDiv(a, b \div 4, c)
             t == b % 4
             u == 4 * h[2] + (a % c) * t
         IN  <<4 * h[1] + (a \div c) * t + u \div c, u % c>>

\* floor(a * b / 10^8) for |a|, |b| < 4 * 10^8
Mul8(a, b) ==
    LET a1 == a \div 10^4
        a0 == a % 10^4
        b1 == b \div 10^4
        b0 == b % 10^4
    IN  a1 * b1 + (a1 * b0 + a0 * b1 + (a0 * b0) \div 10^4) \div 10^4

\* floor(n * 10^8 / d) for |n| < d < 2 * 10^5
Div8(n, d) == ((n * 10^4) \div d) * 10^4 + (((n * 10^4) % d) * 10^4) \div d

\* floor(log2(x)) for 1 <= x < 2^29
FloorLog2(x) == CHOOSE k \in 0..28 : 2^k <= x /\ x < 2^(k + 1)

\* ln(2) = 0.69314718056: the first eight decimals, and the next three
Ln2e8 == 69314718
Ln2e11rest == 56

\* the highest power of the atanh series that Ln8 sums
AtanhTerms == 13

\* (1/n + w/(n+2) + w^2/(n+4) + ...) * 10^8, for w * 10^8 given
RECURSIVE AtanhSeries(_, _)
AtanhSeries(w, n) ==
    IF n > AtanhTerms THEN 0 ELSE 10^8 \div n + Mul8(w, AtanhSeries(w, n + 2))

\* Math.log(x) * 10^8, to within 3 units, for an integer 1 <= x < 10^5:
\* x = 2^k * f with 3/4 <= f < 3/2, and ln(f) = 2 * atanh((f - 1)/(f + 1))
Ln8(x) ==
    LET k0 == FloorLog2(x)
        k  == IF 2 * x >= 3 * 2^k0 THEN k0 + 1 ELSE k0
        z2 == Div8(2 * (x - 2^k), x + 2^k)
        z  == z2 \div 2
    IN  k * Ln2e8 + (k * Ln2e11rest) \div 1000 + Mul8(z2, AtanhSeries(Mul8(z, z), 1))

\* r * Math.log(x) / 5, kept to four decimals
TimesLogOver5(r, x) == Frac(MulDiv(r[1], Ln8(x), r[2] * 5 * 10^4)[1], 10^4)

---------------------------------------------------------------------------
(* Static tables                                                            *)

ModeIds == {"air", "ocean", "road"}
ServiceIds == {"express", "standard", "economy"}
SortKeys == {"price", "eta", "co2"}

SERVICE_LEVELS ==
    [express  |-> [speed |-> 3,  multiplier |-> Frac(21, 10)],
     standard |-> [speed |-> 6,  multiplier |-> Frac(12, 10)],
     economy  |-> [speed |-> 10, multiplier |-> Frac(10, 10)]]

MODES ==
    [air   |-> [emissionFactor |-> 500],
     ocean |-> [emissionFactor |-> 16],
     road  |-> [emissionFactor |-> 120]]

CARRIERS ==
    [air   |-> <<"DHL Express", "FedEx", "UPS", "Maersk Air Cargo">>,
     ocean |-> <<"Maersk", "MSC", "CMA CGM", "Hapag-Lloyd">>,
     road  |-> <<"XPO", "Schneider", "JB Hunt", "Old Dominion">>]

---------------------------------------------------------------------------
(* Estimators                                                               *)

\* Math.max(kg / (volumeM3 * 167 || 1), 0.6)
densityAdj(kg, vol) ==
    LET den == FMul(vol, Number(167))
    IN  MathMax(FDiv(Number(kg), IF den[1] = 0 THEN Number(1) ELSE den), Frac(6, 10))

modeAdj(m) == IF m = "air" THEN Frac(18, 10) ELSE IF m = "ocean" THEN Frac(4, 10) ELSE Number(1)

\* the price before rounding
basePrice(kg, vol, dist, multiplier, m) ==
    LET linear == FAdd(FMul(Number(kg), Frac(8, 10)), FMul(vol, Number(50)))
        rate   == FMul(FMul(FMul(linear, multiplier), modeAdj(m)), densityAdj(kg, vol))
    IN  FAdd(TimesLogOver5(rate, dist + 20), Number(50))

\* estimateBaseRate without Math.round
estimateBaseRateNoRound(kg, vol, dist, multiplier, m) ==
    MathMax(basePrice(kg, vol, dist, multiplier, m), Number(25))

estimateBaseRate(kg, vol, dist, multiplier, m) ==
    MathMax(MathRound(basePrice(kg, vol, dist, multiplier, m)), Number(25))

\* estimateDistanceKm without Math.abs
estimateDistanceKmNoAbs(o, d) ==
    IF Len(o) = 0 \/ Len(d) = 0 THEN 0
    ELSE 800 + (Len(o) - Len(d)) * 120 + (o[1] - d[1]) * 5

estimateDistanceKm(o, d) ==
    IF Len(o) = 0 \/ Len(d) = 0 THEN 0
    ELSE LET diff == MathAbs(Len(o) - Len(d))
         IN  800 + diff * 120 + MathAbs(o[1] - d[1]) * 5

transitDivisor(m) == IF m = "air" THEN 2000 ELSE IF m = "ocean" THEN 600 ELSE 700

\* estimateTransitDays without the floor of the speed hint
estimateTransitDaysNoHint(dist, m, speedHintDays) ==
    MathCeil(Frac(dist, transitDivisor(m)))

estimateTransitDays(dist, m, speedHintDays) ==
    LET base == Frac(dist, transitDivisor(m))
    IN  MathCeil(MathMax(base, FMul(Number(speedHintDays), Frac(6, 10))))

\* estimateCO2eKg without Math.round
estimateCO2eKgNoRound(m, dist, weightKg) ==
    FDiv(FMul(Number(MODES[m].emissionFactor), FMul(Frac(weightKg, 1000), Number(dist))), Number(1000))

estimateCO2eKg(m, dist, weightKg) ==
    LET modeDef == MODES[m]
        tonKm   == FMul(Frac(weightKg, 1000), Number(dist))
    IN  MathRound(FDiv(FMul(Number(modeDef.emissionFactor), tonKm), Number(1000)))

---------------------------------------------------------------------------
(* Quote generator (the quotes memo)                                        *)

\* a multiplier that falls with the carrier's index
RosterDiscount(s, idx) ==
    FMul(SERVICE_LEVELS[s].multiplier, FSub(Number(1), FMul(Number(idx), Frac(5, 100))))

\* the multiplier the i-th carrier of a roster is quoted with (line 116)
RosterMultiplier(s, idx) ==
    FMul(SERVICE_LEVELS[s].multiplier, FAdd(Number(1), FMul(Number(idx), Frac(5, 100))))

\* a quote whose co2e is scaled with the service multiplier
QuoteCo2eByService(name, idx, m, s, w, vol, dist) ==
    [carrier |-> name, price |-> estimateBaseRate(w, vol, dist, RosterMultiplier(s, idx), m),
     etaDays |-> FAdd(estimateTransitDays(dist, m, SERVICE_LEVELS[s].speed), Number(idx)),
     co2e |-> MathRound(FMul(FMul(estimateCO2eKg(m, dist, w), SERVICE_LEVELS[s].multiplier),
                             FAdd(Number(1), FMul(Number(idx), Frac(3, 100))))),
     mode |-> m, service |-> s]

\* a quote whose ETA is not moved by the carrier's index
QuoteSameEta(name, idx, m, s, w, vol, dist) ==
    [carrier |-> name, price |-> estimateBaseRate(w, vol, dist, RosterMultiplier(s, idx), m),
     etaDays |-> estimateTransitDays(dist, m, SERVICE_LEVELS[s].speed),
     co2e |-> MathRound(FMul(estimateCO2eKg(m, dist, w), FAdd(Number(1), FMul(Number(idx), Frac(3, 100))))),
     mode |-> m, service |-> s]

\* one element of carriers.map((name, idx) => ...), lines 115-127
Quote(name, idx, m, s, w, vol, dist) ==
    LET serviceMeta == SERVICE_LEVELS[s]
        base    == estimateBaseRate(w, vol, dist, RosterMultiplier(s, idx), m)
        etaDays == FAdd(estimateTransitDays(dist, m, serviceMeta.speed), Number(idx))
        co2e    == FMul(estimateCO2eKg(m, dist, w), FAdd(Number(1), FMul(Number(idx), Frac(3, 100))))
    IN  [carrier |-> name, price |-> base, etaDays |-> etaDays, co2e |-> MathRound(co2e),
         mode |-> m, service |-> s]

\* the callback without the test of origin
computeQuotesNoOriginTest(sub, o, d, m, s, w, vol, dist) ==
    IF ~sub \/ Len(d) = 0 THEN <<>>
    ELSE LET carriers == CARRIERS[m]
         IN  [k \in 1..Len(carriers) |-> Quote(carriers[k], k - 1, m, s, w, vol, dist)]

\* the callback of the quotes memo
computeQuotes(sub, o, d, m, s, w, vol, dist) ==
    IF ~sub \/ Len(o) = 0 \/ Len(d) = 0 THEN <<>>
    ELSE LET carriers == CARRIERS[m]
         IN  [k \in 1..Len(carriers) |-> Quote(carriers[k], k - 1, m, s, w, vol, dist)]

\* the callback of the quotes memo in the file's second component, which
\* has no submitted flag
computeQuotesV2(o, d, m, s, w, vol, dist) ==
    IF Len(o) = 0 \/ Len(d) = 0 THEN <<>>
    ELSE LET carriers == CARRIERS[m]
         IN  [k \in 1..Len(carriers) |-> Quote(carriers[k], k - 1, m, s, w, vol, dist)]

---------------------------------------------------------------------------
(* Filter and sort pipeline (the filteredSorted memo)                       *)

\* +Infinity, the value of Math.min() without arguments; FLeq and FMul
\* treat it as the greatest number
Infinity == <<1, 0>>

\* Math.min(...xs)
RECURSIVE MathMin(_)
MathMin(xs) ==
    IF Len(xs) = 0 THEN Infinity
    ELSE LET rest == MathMin(Tail(xs))
         IN  IF FLeq(Head(xs), rest) THEN Head(xs) ELSE rest

\* the comparator handed to rows.sort
Compare(a, b, key) ==
    IF key = "price" THEN FSub(a.price, b.price)
    ELSE IF key = "eta" THEN FSub(a.etaDays, b.etaDays)
    ELSE FSub(a.co2e, b.co2e)

\* x put in front of the first element that does not compare less than it
RECURSIVE InsertBeforeEqual(_, _, _)
InsertBeforeEqual(xs, x, key) ==
    IF Len(xs) = 0 THEN <<x>>
    ELSE IF Compare(Head(xs), x, key)[1] >= 0 THEN <<x>> \o xs
    ELSE <<Head(xs)>> \o InsertBeforeEqual(Tail(xs), x, key)

\* x put into the sorted sequence xs behind every element that does not
\* compare greater than it
RECURSIVE Insert(_, _, _)
Insert(xs, x, key) ==
    IF Len(xs) = 0 THEN <<x>>
    ELSE IF Compare(Head(xs), x, key)[1] > 0 THEN <<x>> \o xs
    ELSE <<Head(xs)>> \o Insert(Tail(xs), x, key)

\* Array.prototype.sort with that comparator: ascending and stable
RECURSIVE SortRows(_, _)
SortRows(xs, key) ==
    IF Len(xs) = 0 THEN <<>>
    ELSE Insert(SortRows(SubSeq(xs, 1, Len(xs) - 1), key), xs[Len(xs)], key)

PriceFilter(qs, maxP) == SelectSeq(qs, LAMBDA q : FLeq(q.price, Number(maxP)))

\* rows.map((r) => r.co2e)
Co2eOf(rows) == [i \in 1..Len(rows) |-> rows[i].co2e]

\* rows.filter((r) => r.co2e <= threshold)
GreenFilter(rows) ==
    LET threshold == FMul(MathMin(Co2eOf(rows)), Frac(12, 10))
    IN  SelectSeq(rows, LAMBDA r : FLeq(r.co2e, threshold))

\* the callback with the threshold taken over all quotes, not over those
\* within maxPrice
computeFilteredSortedFullSetThreshold(qs, maxP, key, green) ==
    LET rows0 == PriceFilter(qs, maxP)
        threshold == FMul(MathMin(Co2eOf(qs)), Frac(12, 10))
        rows1 == IF green /\ Len(rows0) # 0
                 THEN SelectSeq(rows0, LAMBDA r : FLeq(r.co2e, threshold)) ELSE rows0
    IN  SortRows(rows1, key)

\* the callback of the filteredSorted memo
computeFilteredSorted(qs, maxP, key, green) ==
    LET rows0 == PriceFilter(qs, maxP)
        rows1 == IF green /\ Len(rows0) # 0 THEN GreenFilter(rows0) ELSE rows0
    IN  SortRows(rows1, key)

\* the same callback in the file's second component: no length test
computeFilteredSortedV2(qs, maxP, key, green) ==
    LET rows0 == PriceFilter(qs, maxP)
        rows1 == IF green THEN GreenFilter(rows0) ELSE rows0
    IN  SortRows(rows1, key)

\* filteredSorted.map((q) => q.price)
PriceOf(rows) == [i \in 1..Len(rows) |-> rows[i].price]

\* null
Null == <<>>

\* the callback with the greatest price for the least
computeBestPriceGreatest(rows) ==
    IF Len(rows) # 0
    THEN rows[CHOOSE i \in 1..Len(rows) : \A j \in 1..Len(rows) : FLeq(rows[j].price, rows[i].price)].price
    ELSE Null

\* the callback of the bestPrice memo
computeBestPrice(rows) == IF Len(rows) # 0 THEN MathMin(PriceOf(rows)) ELSE Null

---------------------------------------------------------------------------
(* The form: FreightCompareApp                                              *)

\* "Seattle, WA" and "Taipei, TW", the placeholders of the two lane inputs
SeattleWA == <<83, 101, 97, 116, 116, 108, 101, 44, 32, 87, 65>>
TaipeiTW == <<84, 97, 105, 112, 101, 105, 44, 32, 84, 87>>

\* what the user types or picks in the form
OriginInputs == {<<>>, SeattleWA}
DestinationInputs == {<<>>, SeattleWA, TaipeiTW}
WeightInputs == {-100, 0, 100}
LengthInputs == {0, 120}
WidthInputs == {0, 80}
HeightInputs == {0, 60}
MaxPriceInputs == {100, 400, 5000}

\* f as an explicit table: comparing a function makes the model checker
\* enumerate it, once
Tabulate(f) == IF f = f THEN f ELSE f

\* computeQuotes over the values the form can hold, so that each quote list
\* is computed once
QuoteArgs ==
    BOOLEAN \X OriginInputs \X DestinationInputs \X ModeIds \X ServiceIds \X WeightInputs
    \X {Frac(l * w * h, 10^6) : l \in LengthInputs, w \in WidthInputs, h \in HeightInputs}
    \X {estimateDistanceKm(o, d) : o \in OriginInputs, d \in DestinationInputs}

QuotesTable ==
    Tabulate([a \in QuoteArgs |-> computeQuotes(a[1], a[2], a[3], a[4], a[5], a[6], a[7], a[8])])

\* canSearch that tests the lane only
canSearchLaneOnly == Len(origin) # 0 /\ Len(destination) # 0

canSearch ==
    Len(origin) # 0 /\ Len(destination) # 0 /\ weight > 0 /\ length > 0 /\ width > 0 /\ height > 0

\* whether the row of q shows the "Best" badge (line 329)
isBest(q) == bestPrice # Null /\ q.price = bestPrice

\* the quotes array sorted in place by the filteredSorted callback
quotesSortedInPlace(qs, key) == SortRows(qs, key)

\* the quotes array after the filteredSorted callback has run: quotes.filter
\* builds a new array and rows.sort sorts that one, so quotes is as it was
quotesAfterRank(qs, key) == qs

\* the number on the "CO2e (best)" card (line 265), Null for the dash
co2eBest == IF Len(quotes) # 0 THEN MathMin(Co2eOf(quotes)) ELSE Null

\* the dependency arrays of the memos
volumeDeps == <<length, width, height>>
distanceDeps == <<origin, destination>>
\* the dependency array of quotes without mode
quotesDepsNoMode ==
    <<submitted, origin, destination, volumeM3, weight, distanceKm,
      SERVICE_LEVELS[service], service>>

quotesDeps ==
    <<submitted, origin, destination, mode, volumeM3, weight, distanceKm,
      SERVICE_LEVELS[service], service>>
rankDeps == <<maxPrice, sortBy, onlyGreen>>

\* one render after a state update: every memo whose dependencies changed
\* runs its callback again, the others keep their value.  quotes and
\* filteredSorted are arrays, compared by identity: a dependent memo runs
\* again exactly when the array was built anew.
Render ==
    /\ volumeM3' = IF volumeDeps' = volumeDeps THEN volumeM3
                   ELSE Frac(length' * width' * height', 10^6)
    /\ distanceKm' = IF distanceDeps' = distanceDeps THEN distanceKm
                     ELSE estimateDistanceKm(origin', destination')
    /\ LET generated == IF quotesDeps' = quotesDeps THEN quotes
                        ELSE QuotesTable[<<submitted', origin', destination', mode', service',
                                           weight', volumeM3', distanceKm'>>]
       IN  IF quotesDeps' = quotesDeps /\ rankDeps' = rankDeps
           THEN quotes' = generated /\ filteredSorted' = filteredSorted
           ELSE /\ quotes' = quotesAfterRank(generated, sortBy')
                /\ filteredSorted' = computeFilteredSorted(generated, maxPrice', sortBy', onlyGreen')
    /\ bestPrice' = IF quotesDeps' = quotesDeps /\ rankDeps' = rankDeps THEN bestPrice
                    ELSE computeBestPrice(filteredSorted')

AppInit ==
    /\ origin = <<>> /\ destination = <<>>
    /\ mode = "air" /\ service = "standard"
    /\ weight = 100 /\ length = 120 /\ width = 80 /\ height = 60
    /\ sortBy = "price" /\ maxPrice = 5000 /\ onlyGreen = FALSE
    /\ submitted = FALSE /\ loading = FALSE /\ timers = 0
    /\ volumeM3 = Frac(120 * 80 * 60, 10^6)
    /\ distanceKm = estimateDistanceKm(<<>>, <<>>)
    /\ quotes = computeQuotes(FALSE, <<>>, <<>>, "air", "standard", 100, Frac(120 * 80 * 60, 10^6), 0)
    /\ filteredSorted = computeFilteredSorted(<<>>, 5000, "price", FALSE)
    /\ bestPrice = computeBestPrice(<<>>)

Init == AppInit /\ call = [fn |-> "none", done |-> FALSE]

SetOrigin ==
    /\ \E s \in OriginInputs : origin' = s
    /\ UNCHANGED <<destination, mode, service, weight, length, width, height>>
    /\ UNCHANGED <<rankVars, searchVars, call>>
    /\ Render

SetDestination ==
    /\ \E s \in DestinationInputs : destination' = s
    /\ UNCHANGED <<origin, mode, service, weight, length, width, height>>
    /\ UNCHANGED <<rankVars, searchVars, call>>
    /\ Render

SetMode ==
    /\ \E v \in ModeIds : mode' = v
    /\ UNCHANGED <<origin, destination, service, weight, length, width, height>>
    /\ UNCHANGED <<rankVars, searchVars, call>>
    /\ Render

SetService ==
    /\ \E v \in ServiceIds : service' = v
    /\ UNCHANGED <<origin, destination, mode, weight, length, width, height>>
    /\ UNCHANGED <<rankVars, searchVars, call>>
    /\ Render

\* setWeight(parseInt(e.target.value || "0"))
SetWeight ==
    /\ \E n \in WeightInputs : weight' = n
    /\ UNCHANGED <<origin, destination, mode, service, length, width, height>>
    /\ UNCHANGED <<rankVars, searchVars, call>>
    /\ Render

SetLength ==
    /\ \E n \in LengthInputs : length' = n
    /\ UNCHANGED <<origin, destination, mode, service, weight, width, height>>
    /\ UNCHANGED <<rankVars, searchVars, call>>
    /\ Render

SetWidth ==
    /\ \E n \in WidthInputs : width' = n
    /\ UNCHANGED <<origin, destination, mode, service, weight, length, height>>
    /\ UNCHANGED <<rankVars, searchVars, call>>
    /\ Render

SetHeight ==
    /\ \E n \in HeightInputs : height' = n
    /\ UNCHANGED <<origin, destination, mode, service, weight, length, width>>
    /\ UNCHANGED <<rankVars, searchVars, call>>
    /\ Render

SetSortBy ==
    /\ \E v \in SortKeys : sortBy' = v
    /\ UNCHANGED <<maxPrice, onlyGreen>>
    /\ UNCHANGED <<formVars, searchVars, call>>
    /\ Render

SetMaxPrice ==
    /\ \E n \in MaxPriceInputs : maxPrice' = n
    /\ UNCHANGED <<sortBy, onlyGreen>>
    /\ UNCHANGED <<formVars, searchVars, call>>
    /\ Render

SetOnlyGreen ==
    /\ \E b \in BOOLEAN : onlyGreen' = b
    /\ UNCHANGED <<sortBy, maxPrice>>
    /\ UNCHANGED <<formVars, searchVars, call>>
    /\ Render

\* the Search button, enabled unless !canSearch || loading
ClickSearch ==
    /\ canSearch /\ ~loading
    /\ submitted' = TRUE
    /\ loading' = TRUE
    /\ timers' = timers + 1
    /\ UNCHANGED <<formVars, rankVars, call>>
    /\ Render

\* a timer callback that leaves loading as it is
TimerFiresKeepsLoading ==
    /\ timers > 0
    /\ timers' = timers - 1
    /\ UNCHANGED <<submitted, loading>>
    /\ UNCHANGED <<formVars, rankVars, call>>
    /\ Render

\* the callback of setTimeout(() => setLoading(false), 800)
TimerFires ==
    /\ timers > 0
    /\ timers' = timers - 1
    /\ loading' = FALSE
    /\ UNCHANGED submitted
    /\ UNCHANGED <<formVars, rankVars, call>>
    /\ Render

Next ==
    \/ SetOrigin \/ SetDestination \/ SetMode \/ SetService
    \/ SetWeight \/ SetLength \/ SetWidth \/ SetHeight
    \/ SetSortBy \/ SetMaxPrice \/ SetOnlyGreen
    \/ ClickSearch \/ TimerFires

Spec == Init /\ [][Next]_vars

\* the timer of setTimeout expires: a pending callback runs eventually
LiveSpec == Spec /\ WF_vars(TimerFires)

---------------------------------------------------------------------------
(* The helpers and the rank pipeline called on their own: call records the  *)
(* last call, its arguments and what it returned                            *)

\* the characters of the strings handed to estimateDistanceKm: A, E, S
Chars == {65, 69, 83}
MaxLen == 3
Strings == UNION {[1..n -> Chars] : n \in 0..MaxLen}

MaxDistanceSteps == 5
Distances == {400 * i : i \in 0..MaxDistanceSteps}

RateWeights == {-100, 0, 50, 100}
Volumes == {Frac(l * w * h, 10^6) : l \in LengthInputs, w \in WidthInputs, h \in HeightInputs}
RosterIndexes == 0..3
SpeedHints == {0, 1, 3, 5, 6, 10}
CO2Weights == {-100, 0, 1, 50, 100}

\* quotes of one lane for the rank pipeline; no two have the same carrier
PoolQuote(name, p, e, c) ==
    [carrier |-> name, price |-> Number(p), etaDays |-> Number(e), co2e |-> Number(c),
     mode |-> "air", service |-> "standard"]
QuotePool ==
    { PoolQuote("DHL Express", 100, 3, 10), PoolQuote("FedEx", 200, 2, 11),
      PoolQuote("UPS", 300, 2, 8), PoolQuote("Maersk Air Cargo", 100, 5, 15),
      PoolQuote("Lufthansa Cargo", 200, 4, 12), PoolQuote("Cathay Cargo", 150, 1, -50) }
MaxRows == 3
QuoteLists ==
    UNION {{qs \in [1..n -> QuotePool] : \A i, j \in 1..n : qs[i] = qs[j] => i = j} : n \in 0..MaxRows}
RankMaxPrices == {250, 5000}

\* the calls to make
DistanceCalls ==
    {[fn |-> "estimateDistanceKm", done |-> FALSE, origin |-> o, destination |-> d] :
        o \in Strings, d \in Strings}
DensityCalls ==
    {[fn |-> "densityAdj", done |-> FALSE, kg |-> kg, volumeM3 |-> vol] :
        kg \in RateWeights, vol \in Volumes}
RateCalls ==
    {[fn |-> "estimateBaseRate", done |-> FALSE, kg |-> kg, volumeM3 |-> vol, distanceKm |-> dist,
      service |-> s, idx |-> idx, mode |-> m] :
        kg \in RateWeights, vol \in Volumes, dist \in Distances, s \in ServiceIds,
        idx \in RosterIndexes, m \in ModeIds}
TransitCalls ==
    {[fn |-> "estimateTransitDays", done |-> FALSE, distanceKm |-> dist, mode |-> m,
      speedHintDays |-> hint] :
        dist \in Distances, m \in ModeIds, hint \in SpeedHints}
\* two calls for one mode, the second with a distance and a weight that are
\* not smaller
CO2Calls ==
    {c \in [fn : {"estimateCO2eKg"}, done : {FALSE}, mode : ModeIds, distanceKm : Distances,
            weightKg : CO2Weights, distanceKm2 : Distances, weightKg2 : CO2Weights] :
        c.distanceKm <= c.distanceKm2 /\ c.weightKg <= c.weightKg2}
RankCalls ==
    [fn : {"filteredSorted", "filteredSortedV2"}, done : {FALSE}, quotes : QuoteLists,
     maxPrice : RankMaxPrices, sortBy : SortKeys, onlyGreen : BOOLEAN]
\* the rank pipeline on one quote list with two values of maxPrice, the
\* second one greater
RankTwiceCalls ==
    {c \in [fn : {"filteredSortedTwice"}, done : {FALSE}, quotes : QuoteLists,
            maxPrice : RankMaxPrices, maxPrice2 : RankMaxPrices, sortBy : SortKeys,
            onlyGreen : BOOLEAN] :
        c.maxPrice < c.maxPrice2}
\* the quotes callback of either component, after a search
QuotesCalls ==
    [fn : {"quotes", "quotesV2"}, done : {FALSE}, origin : OriginInputs \cup DestinationInputs,
     destination : OriginInputs \cup DestinationInputs, mode : ModeIds, service : ServiceIds,
     weight : RateWeights, volumeM3 : Volumes]
Calls ==
    DistanceCalls \cup DensityCalls \cup RateCalls \cup TransitCalls \cup CO2Calls \cup RankCalls
    \cup QuotesCalls \cup RankTwiceCalls

FnInit == AppInit /\ call \in Calls

CallEstimateDistanceKm ==
    /\ call.fn = "estimateDistanceKm" /\ ~call.done
    /\ call' = [done |-> TRUE, result |-> estimateDistanceKm(call.origin, call.destination)] @@ call
    /\ UNCHANGED appVars

CallDensityAdj ==
    /\ call.fn = "densityAdj" /\ ~call.done
    /\ call' = [done |-> TRUE, result |-> densityAdj(call.kg, call.volumeM3)] @@ call
    /\ UNCHANGED appVars

CallEstimateBaseRate ==
    /\ call.fn = "estimateBaseRate" /\ ~call.done
    /\ call' = [done |-> TRUE,
                result |-> estimateBaseRate(call.kg, call.volumeM3, call.distanceKm,
                                            RosterMultiplier(call.service, call.idx), call.mode)]
               @@ call
    /\ UNCHANGED appVars

CallEstimateTransitDays ==
    /\ call.fn = "estimateTransitDays" /\ ~call.done
    /\ call' = [done |-> TRUE,
                result |-> estimateTransitDays(call.distanceKm, call.mode, call.speedHintDays)]
               @@ call
    /\ UNCHANGED appVars

CallEstimateCO2eKg ==
    /\ call.fn = "estimateCO2eKg" /\ ~call.done
    /\ call' = [done |-> TRUE,
                result  |-> estimateCO2eKg(call.mode, call.distanceKm, call.weightKg),
                result2 |-> estimateCO2eKg(call.mode, call.distanceKm2, call.weightKg2)]
               @@ call
    /\ UNCHANGED appVars

CallFilteredSorted ==
    /\ call.fn = "filteredSorted" /\ ~call.done
    /\ call' = [done |-> TRUE,
                result |-> computeFilteredSorted(call.quotes, call.maxPrice, call.sortBy,
                                                 call.onlyGreen)]
               @@ call
    /\ UNCHANGED appVars

CallFilteredSortedV2 ==
    /\ call.fn = "filteredSortedV2" /\ ~call.done
    /\ call' = [done |-> TRUE,
                result |-> computeFilteredSortedV2(call.quotes, call.maxPrice, call.sortBy,
                                                   call.onlyGreen)]
               @@ call
    /\ UNCHANGED appVars

CallQuotes ==
    /\ call.fn = "quotes" /\ ~call.done
    /\ call' = [done |-> TRUE,
                result |-> computeQuotes(TRUE, call.origin, call.destination, call.mode,
                                         call.service, call.weight, call.volumeM3,
                                         estimateDistanceKm(call.origin, call.destination))]
               @@ call
    /\ UNCHANGED appVars

CallQuotesV2 ==
    /\ call.fn = "quotesV2" /\ ~call.done
    /\ call' = [done |-> TRUE,
                result |-> computeQuotesV2(call.origin, call.destination, call.mode,
                                           call.service, call.weight, call.volumeM3,
                                           estimateDistanceKm(call.origin, call.destination))]
               @@ call
    /\ UNCHANGED appVars

CallFilteredSortedTwice ==
    /\ call.fn = "filteredSortedTwice" /\ ~call.done
    /\ call' = [done |-> TRUE,
                result  |-> computeFilteredSorted(call.quotes, call.maxPrice, call.sortBy,
                                                  call.onlyGreen),
                result2 |-> computeFilteredSorted(call.quotes, call.maxPrice2, call.sortBy,
                                                  call.onlyGreen)]
               @@ call
    /\ UNCHANGED appVars

FnNext ==
    \/ CallEstimateDistanceKm \/ CallDensityAdj \/ CallEstimateBaseRate
    \/ CallEstimateTransitDays \/ CallEstimateCO2eKg
    \/ CallFilteredSorted \/ CallFilteredSortedV2
    \/ CallQuotes \/ CallQuotesV2
    \/ CallFilteredSortedTwice

FnSpec == FnInit /\ [][FnNext]_vars

---------------------------------------------------------------------------
(* Properties                                                               *)

Returned(fn) == call.fn = fn /\ call.done
Positive(x) == x[1] > 0 /\ x[2] > 0

\* C1: in every reachable state, a weight or a dimension that is not
\* positive means that the generated quote list is empty.
C1_NonPositiveShipmentHasNoQuotes ==
    (weight <= 0 \/ length <= 0 \/ width <= 0 \/ height <= 0) => quotes = <<>>

\* C2: estimateDistanceKm returns 0 if either string is empty and otherwise
\* 800 + 120*|len(origin) - len(destination)| + 5*|origin[0] - destination[0]|;
\* so it is never negative, is 0 exactly when a string is empty, and is 800
\* for strings of equal length and equal first character.
C2_DistanceFormula ==
    Returned("estimateDistanceKm") =>
        LET o == call.origin
            d == call.destination
            r == call.result
            empty == o = <<>> \/ d = <<>>
            lenDiff  == IF Len(o) >= Len(d) THEN Len(o) - Len(d) ELSE Len(d) - Len(o)
            codeDiff == IF o[1] >= d[1] THEN o[1] - d[1] ELSE d[1] - o[1]
        IN  /\ empty => r = 0
            /\ ~empty => r = 800 + 120 * lenDiff + 5 * codeDiff
            /\ r >= 0
            /\ (r = 0) <=> empty
            /\ (~empty /\ Len(o) = Len(d) /\ o[1] = d[1]) => r = 800

\* estimateDistanceKm("SEA", "SEA") has returned 800
C2_Witness ==
    /\ Returned("estimateDistanceKm")
    /\ call.origin = <<83, 69, 65>> /\ call.destination = <<83, 69, 65>>
    /\ call.result = 800

\* C3: in every reachable state with an empty origin or destination the lane
\* distance is 0 and the quote list and the ranked list are empty, whether
\* or not a search was submitted.
C3_EmptyLaneHasNoQuotes ==
    (origin = <<>> \/ destination = <<>>) =>
        distanceKm = 0 /\ quotes = <<>> /\ filteredSorted = <<>>

\* the origin was cleared after a search
C3_Witness ==
    submitted /\ origin = <<>> /\ destination = TaipeiTW /\ distanceKm = 0 /\ quotes = <<>>

\* C4: for a positive weight, a positive volume and a distance that is not
\* negative, with any mode and any multiplier of a service level and a
\* roster index, estimateBaseRate returns an integer that is at least 25;
\* so does the price of every quote generated for such a shipment.
C4_BaseRateIsIntegerAtLeast25 ==
    /\ (Returned("estimateBaseRate") /\ call.kg > 0 /\ Positive(call.volumeM3)
            /\ call.distanceKm >= 0) =>
           IsInteger(call.result) /\ call.result[1] >= 25
    /\ (Returned("quotes") /\ call.weight > 0 /\ Positive(call.volumeM3)) =>
           \A k \in 1..Len(call.result) :
               IsInteger(call.result[k].price) /\ call.result[k].price[1] >= 25

\* a rate above the minimum was returned for a valid shipment, and quotes
\* were generated for one
C4_Witness ==
    \/ /\ Returned("estimateBaseRate") /\ call.kg = 100 /\ Positive(call.volumeM3)
       /\ call.distanceKm > 0 /\ call.idx = 3 /\ call.result[1] > 25
    \/ /\ Returned("quotes") /\ call.weight = 100 /\ Positive(call.volumeM3)
       /\ Len(call.result) = 4

\* C5: when volumeM3 is 0 the density adjustment is the floor 0.6, for
\* every weight.
C5_ZeroVolumeGivesFloor ==
    (Returned("densityAdj") /\ call.volumeM3 = Number(0)) => call.result = Frac(6, 10)

ModeDivisor(m) == CASE m = "air" -> 2000 [] m = "ocean" -> 600 [] m = "road" -> 700

\* what C6 says of a call of estimateTransitDays that has returned
TransitDaysAsClaimed ==
    LET hintDays == (6 * call.speedHintDays + 9) \div 10
        baseDays == (call.distanceKm + ModeDivisor(call.mode) - 1) \div ModeDivisor(call.mode)
    IN  /\ IsInteger(call.result)
        /\ call.result[1] >= 1
        /\ call.result[1] >= hintDays
        /\ call.result[1] = IF baseDays >= hintDays THEN baseDays ELSE hintDays

\* C6 as stated: for every distance that is not negative, every mode and
\* every speed hint, estimateTransitDays returns a positive integer that is
\* at least ceil(speedHintDays * 0.6) and equals
\* ceil(max(distanceKm / divisor, speedHintDays * 0.6)), the divisor being
\* 2000 for air, 600 for ocean and 700 for road.
C6_Original ==
    (Returned("estimateTransitDays") /\ call.distanceKm >= 0) => TransitDaysAsClaimed

\* C6, amended: the same for every speed hint of at least one day, as those
\* of the service levels are; and the ETA of every generated quote is a
\* positive integer.
C6_TransitDaysWithPositiveHint ==
    /\ (Returned("estimateTransitDays") /\ call.distanceKm >= 0 /\ call.speedHintDays >= 1) =>
           TransitDaysAsClaimed
    /\ Returned("quotes") =>
           \A k \in 1..Len(call.result) :
               IsInteger(call.result[k].etaDays) /\ call.result[k].etaDays[1] >= 1

\* the hint decided a short lane, the distance a long one
C6_Witness ==
    /\ Returned("estimateTransitDays")
    /\ \/ call.distanceKm = 0 /\ call.speedHintDays = 3 /\ call.result = Number(2)
       \/ call.distanceKm = 2000 /\ call.mode = "ocean" /\ call.speedHintDays = 3
          /\ call.result = Number(4)

\* C7: for every mode and every distance and weight that are not negative,
\* estimateCO2eKg returns an integer that is not negative, and with the mode
\* fixed it does not decrease when the distance or the weight grows.
C7_CO2eNonNegativeMonotone ==
    (Returned("estimateCO2eKg") /\ call.distanceKm >= 0 /\ call.weightKg >= 0) =>
        /\ IsInteger(call.result) /\ call.result[1] >= 0
        /\ IsInteger(call.result2)
        /\ call.result[1] <= call.result2[1]

\* a heavier shipment over a longer lane emitted strictly more
C7_Witness ==
    /\ Returned("estimateCO2eKg")
    /\ 0 < call.weightKg /\ call.weightKg < call.weightKg2
    /\ 0 < call.distanceKm /\ call.distanceKm < call.distanceKm2
    /\ 0 < call.result[1] /\ call.result[1] < call.result2[1]

\* C8: a quote list that is not empty has one quote per carrier of the
\* selected mode's roster, in roster order, and every quote carries the
\* selected mode and service level.
C8_OneQuotePerRosterCarrier ==
    quotes # <<>> =>
        /\ Len(quotes) = Len(CARRIERS[mode])
        /\ \A k \in 1..Len(quotes) :
               /\ quotes[k].carrier = CARRIERS[mode][k]
               /\ quotes[k].mode = mode
               /\ quotes[k].service = service

\* quotes on display after the mode and the service level were changed
C8_Witness ==
    /\ quotes # <<>> /\ mode = "ocean" /\ service = "express"
    /\ quotes[4].carrier = "Hapag-Lloyd"

\* C9: for a valid shipment, the i-th quote (from 0) has the ETA of the 0-th
\* plus i and a price that is at least the 0-th quote's, the price being
\* estimateBaseRate with the service multiplier times (1 + i*0.05).
C9_RosterPerturbation ==
    (quotes # <<>> /\ weight > 0 /\ length > 0 /\ width > 0 /\ height > 0) =>
        \A k \in 1..Len(quotes) :
            /\ quotes[k].etaDays = FAdd(quotes[1].etaDays, Number(k - 1))
            /\ FLeq(quotes[1].price, quotes[k].price)
            /\ quotes[k].price =
                   estimateBaseRate(weight, volumeM3, distanceKm,
                       FMul(SERVICE_LEVELS[service].multiplier, Frac(100 + 5 * (k - 1), 100)),
                       mode)

\* quotes of a valid shipment, the last one dearer than the first
C9_Witness ==
    /\ quotes # <<>> /\ weight > 0 /\ length > 0 /\ width > 0 /\ height > 0
    /\ FLess(quotes[1].price, quotes[4].price)

Range(xs) == {xs[i] : i \in 1..Len(xs)}

\* C10: the rank pipeline returns exactly the quotes with price <= maxPrice
\* when the flag is off, and when it is on those of them whose co2e is at
\* most 1.2 times the least co2e among the quotes with price <= maxPrice;
\* no quote is added, duplicated or altered.
C10_RankKeepsExactlyTheFiltered ==
    (Returned("filteredSorted") \/ Returned("filteredSortedV2")) =>
        LET affordable == {q \in Range(call.quotes) : q.price[1] <= call.maxPrice}
            least == CHOOSE q \in affordable : \A r \in affordable : q.co2e[1] <= r.co2e[1]
            kept == IF call.onlyGreen
                    THEN {q \in affordable : 10 * q.co2e[1] <= 12 * least.co2e[1]}
                    ELSE affordable
        IN  /\ Range(call.result) = kept
            /\ Len(call.result) = Cardinality(kept)

\* with the flag on, a quote within maxPrice was dropped for its co2e, the
\* least co2e being that of a quote within maxPrice and not the least of all
C10_Witness ==
    /\ Returned("filteredSorted") /\ call.onlyGreen
    /\ \E q \in Range(call.quotes) :
          /\ q.price[1] > call.maxPrice
          /\ \A r \in Range(call.quotes) : q.co2e[1] <= r.co2e[1]
    /\ \E q \in Range(call.quotes) : q.price[1] <= call.maxPrice /\ q \notin Range(call.result)
    /\ call.result # <<>>

\* the quotes on display that pass the price filter
Affordable == {quotes[k] : k \in {i \in 1..Len(quotes) : quotes[i].price[1] <= maxPrice}}

\* C11: in every reachable state with the lower-emission flag set, if some
\* quote passes the price filter then the quotes of least co2e among those
\* that pass it are in the ranked list, so that the ranked list is empty
\* only when no quote passes the price filter.
C11_CleanestQuoteIsRetained ==
    (onlyGreen /\ Affordable # {}) =>
        /\ filteredSorted # <<>>
        /\ \A q \in Affordable :
               (\A r \in Affordable : q.co2e[1] <= r.co2e[1]) => q \in Range(filteredSorted)

KeyOf(q, key) ==
    IF key = "price" THEN q.price[1] ELSE IF key = "eta" THEN q.etaDays[1] ELSE q.co2e[1]

Position(xs, x) == CHOOSE i \in 1..Len(xs) : xs[i] = x

RankReturned == Returned("filteredSorted") \/ Returned("filteredSortedV2")

\* C12: the ranked list is ascending in the chosen sort key (price, etaDays
\* or co2e), and quotes of equal key keep the order they had before the
\* sort: the sort is stable.
C12_SortedAscendingAndStable ==
    RankReturned =>
        \A i, j \in 1..Len(call.result) :
            i < j =>
                /\ KeyOf(call.result[i], call.sortBy) <= KeyOf(call.result[j], call.sortBy)
                /\ KeyOf(call.result[i], call.sortBy) = KeyOf(call.result[j], call.sortBy) =>
                       Position(call.quotes, call.result[i]) < Position(call.quotes, call.result[j])

\* three quotes were put in another order, two of them with the same key
C12_Witness ==
    /\ Returned("filteredSorted") /\ Len(call.result) = 3
    /\ call.result # call.quotes
    /\ \E i \in 1..2 :
          KeyOf(call.result[i], call.sortBy) = KeyOf(call.result[i + 1], call.sortBy)

\* C13: a quote of the ranked list is marked "Best" exactly if its price
\* is the least price of the ranked list; every quote at that price is
\* marked, at least one is when the list is not empty, and there is no best
\* price when it is empty.
C13_BestIsLeastPrice ==
    /\ \A k \in 1..Len(filteredSorted) :
           isBest(filteredSorted[k]) <=>
               \A j \in 1..Len(filteredSorted) :
                   filteredSorted[k].price[1] <= filteredSorted[j].price[1]
    /\ filteredSorted # <<>> => \E k \in 1..Len(filteredSorted) : isBest(filteredSorted[k])
    /\ filteredSorted = <<>> => bestPrice = Null

\* a ranked list with two quotes marked and one that is not
C13_Witness ==
    \E i, j, k \in 1..Len(filteredSorted) :
        /\ i # j
        /\ isBest(filteredSorted[i]) /\ isBest(filteredSorted[j])
        /\ ~isBest(filteredSorted[k])

\* C14: with the lower-emission flag set, raising maxPrice can remove a
\* quote from the ranked list, because the threshold is taken anew from the
\* larger price-filtered set: a quote ranked at the smaller maxPrice is
\* missing at the greater one exactly when a quote that only the greater
\* one admits has a co2e below its co2e / 1.2.  (That there are such a list
\* and two such values is C14_Witness.)
C14_RaisedMaxPriceLowersThreshold ==
    (Returned("filteredSortedTwice") /\ call.onlyGreen) =>
        LET within1 == {q \in Range(call.quotes) : q.price[1] <= call.maxPrice}
            admitted == {r \in Range(call.quotes) :
                            call.maxPrice < r.price[1] /\ r.price[1] <= call.maxPrice2}
        IN  /\ \A q \in within1 :
                   (\A r \in within1 : 10 * q.co2e[1] <= 12 * r.co2e[1]) => q \in Range(call.result)
            /\ \A q \in Range(call.result) :
                   q \notin Range(call.result2) <=>
                       \E r \in admitted : 10 * q.co2e[1] > 12 * r.co2e[1]

\* a quote ranked at the smaller maxPrice is missing at the greater one
C14_Witness ==
    /\ Returned("filteredSortedTwice") /\ call.onlyGreen
    /\ call.maxPrice < call.maxPrice2
    /\ \E q \in Range(call.result) : q \notin Range(call.result2)

\* the quote list generated from the values the form holds now
GeneratedNow ==
    QuotesTable[<<submitted, origin, destination, mode, service, weight,
                  Frac(length * width * height, 10^6), estimateDistanceKm(origin, destination)>>]

\* C15: the pipeline has no hidden state: in every state reached after a
\* search was submitted the ranked list on display is the rank pipeline
\* applied, with the current maxPrice, flag and sort key, to the quotes
\* generated from the current origin, destination, mode, service, weight
\* and dimensions; so histories that end in the same inputs display the
\* same list.
C15_DisplayIsFunctionOfInputs ==
    submitted =>
        /\ quotes = GeneratedNow
        /\ filteredSorted = computeFilteredSorted(GeneratedNow, maxPrice, sortBy, onlyGreen)

\* after a search every kind of input was edited and part of the quotes is
\* on display
C15_Witness ==
    /\ submitted /\ mode = "road" /\ service = "express" /\ sortBy = "eta" /\ maxPrice = 400
    /\ 0 < Len(filteredSorted) /\ Len(filteredSorted) < Len(quotes)

\* C16: a step that changes only the ranking controls (maxPrice, the
\* lower-emission flag, the sort key) leaves the generated quote list as it
\* was, in content and in order, and with it the "CO2e (best)" summary and
\* the distance summary.
C16_RankingControlsLeaveQuotes ==
    [][(formVars' = formVars /\ searchVars' = searchVars) =>
           /\ quotes' = quotes
           /\ co2eBest' = co2eBest
           /\ distanceKm' = distanceKm]_vars

\* the ranked list holds the quotes in another order than the quote list,
\* which is in roster order
C16_Witness ==
    /\ quotes # <<>> /\ sortBy = "co2" /\ ~onlyGreen
    /\ Len(filteredSorted) = Len(quotes) /\ filteredSorted # quotes
    /\ \A k \in 1..Len(quotes) : quotes[k].carrier = CARRIERS[mode][k]

\* C17: the co2e of the k-th generated quote (from 0) is
\* round(estimateCO2eKg(mode, distance, weight) * (1 + k*0.03)); and a step
\* that keeps origin, destination, mode and weight, such as a change of the
\* service level or of a dimension, leaves the co2e of every quote as it was.
C17_Co2eIndependentOfService ==
    /\ [](\A k \in 1..Len(quotes) :
              quotes[k].co2e =
                  MathRound(FMul(estimateCO2eKg(mode, distanceKm, weight),
                                 Frac(100 + 3 * (k - 1), 100))))
    /\ [][(/\ origin' = origin /\ destination' = destination /\ mode' = mode
           /\ weight' = weight /\ quotes # <<>> /\ quotes' # <<>>) =>
              \A k \in 1..Len(quotes) : quotes'[k].co2e = quotes[k].co2e]_vars

\* quotes with emissions after the service level and a dimension were changed
C17_Witness ==
    /\ quotes # <<>> /\ service = "express" /\ height = 0
    /\ 0 < quotes[1].co2e[1] /\ quotes[1].co2e[1] < quotes[4].co2e[1]

ValidShipment ==
    /\ origin # <<>> /\ destination # <<>>
    /\ weight > 0 /\ length > 0 /\ width > 0 /\ height > 0

\* C18: the quotes generated from a valid shipment do not decrease in price,
\* etaDays or co2e along the roster; so the ranked list is a prefix of the
\* quote list in roster order whatever maxPrice, the lower-emission flag and
\* the sort key are, and raising maxPrice removes no quote from it.
C18_RankedListIsRosterPrefix ==
    /\ []((ValidShipment /\ quotes # <<>>) =>
            /\ \A k \in 1..(Len(quotes) - 1) :
                   /\ quotes[k].price[1] <= quotes[k + 1].price[1]
                   /\ quotes[k].etaDays[1] <= quotes[k + 1].etaDays[1]
                   /\ quotes[k].co2e[1] <= quotes[k + 1].co2e[1]
            /\ Len(filteredSorted) <= Len(quotes)
            /\ filteredSorted = SubSeq(quotes, 1, Len(filteredSorted)))
    /\ [][(/\ ValidShipment /\ formVars' = formVars /\ searchVars' = searchVars
           /\ sortBy' = sortBy /\ onlyGreen' = onlyGreen /\ maxPrice' >= maxPrice) =>
              Range(filteredSorted) \subseteq Range(filteredSorted')]_vars

\* a valid shipment with the flag set and emissions as the sort key: some of
\* the quotes are on display, not all
C18_Witness ==
    /\ ValidShipment /\ onlyGreen /\ sortBy = "co2"
    /\ 0 < Len(filteredSorted) /\ Len(filteredSorted) < Len(quotes)
    /\ quotes[1].co2e[1] < quotes[4].co2e[1]

\* C19: submission is a latch.  Before the first click of Search the quote
\* list and the ranked list are empty whatever the inputs are; a click
\* happens only with origin and destination not empty, weight and all
\* dimensions positive and loading false; no step resets submitted; and
\* once it is set, quotes follow every edit without another click.
C19_SubmittedIsALatch ==
    /\ [](~submitted => quotes = <<>> /\ filteredSorted = <<>>)
    /\ [][timers' > timers =>
              /\ origin # <<>> /\ destination # <<>>
              /\ weight > 0 /\ length > 0 /\ width > 0 /\ height > 0
              /\ ~loading
              /\ submitted']_vars
    /\ [][submitted => submitted']_vars
    /\ []((submitted /\ origin # <<>> /\ destination # <<>>) =>
              /\ quotes # <<>>
              /\ \A k \in 1..Len(quotes) : quotes[k].mode = mode /\ quotes[k].service = service)

\* after the search the weight was edited to 0: Search is disabled, and the
\* quotes were generated again for the new mode
C19_Witness ==
    /\ submitted /\ ~loading /\ weight = 0 /\ mode = "road"
    /\ quotes # <<>> /\ quotes[1].mode = "road"

\* C20: a click of Search sets loading and schedules exactly one timer; at
\* most one timer is ever pending; loading is true exactly when a timer is
\* pending; and, the timer being fair, loading becomes false again after
\* every click, whatever edits come in between.
C20_LoadingProtocol ==
    /\ [](timers <= 1 /\ (loading <=> timers = 1))
    /\ [][timers' > timers => (timers' = timers + 1 /\ loading' /\ ~loading)]_vars
    /\ (loading ~> ~loading)

\* an edit made while the timer of a search is pending
C20_Witness ==
    loading /\ timers = 1 /\ submitted /\ weight = 0 /\ quotes # <<>>

====
